---- MODULE Spec2Model ----
(***************************************************************************)
(* Model of chronicle_processor/views.py: the intake endpoint              *)
(* process_chronicle_research, the process-wide ThreadPoolExecutor, the    *)
(* background job process_chronicle_research_async, the scorer             *)
(* calculate_chronicle_accuracy and the reporter                           *)
(* send_results_to_main_service.                                           *)
(*                                                                         *)
(* JSON values are records [t, n, s, items]: t is the JSON type, n the     *)
(* number (or 0/1 for a boolean, or the length of a string used as a       *)
(* container / the size of an object), s the characters of a string and    *)
(* items the elements of a list.  Accuracies are integers in units of      *)
(* 1e-5, so that rounding to 4 decimal places is a real operation.         *)
(***************************************************************************)
EXTENDS Integers, Sequences, FiniteSets, TLC

\* ------------------------------------------------------------------ bounds
\* Number of inbound requests of a behaviour of Spec / FairSpec.
MaxRequests == 2
\* Number of inbound requests of a behaviour of PoolSpec / FairPoolSpec.
PoolRequests == 11

\* ThreadPoolExecutor(max_workers=10)
max_workers == 10

\* ------------------------------------------------------------- JSON values
JV(t, n, s, items) == [t |-> t, n |-> n, s |-> s, items |-> items]
JAbsent      == JV("absent", 0, <<>>, <<>>)   \* key not present in the object
JNull        == JV("null", 0, <<>>, <<>>)
JNum(k)      == JV("num", k, <<>>, <<>>)
JBool(b)     == JV("bool", IF b THEN 1 ELSE 0, <<>>, <<>>)
JStr(chars)  == JV("str", Len(chars), chars, <<>>)
JList(items) == JV("list", Len(items), <<>>, items)
JObj(size)   == JV("obj", size, <<>>, <<>>)   \* an object with `size` keys

\* Python truthiness of a decoded JSON value (None, 0, False, "", [], {} are falsy).
Truthy(v) ==
    CASE v.t = "absent" -> FALSE
      [] v.t = "null"   -> FALSE
      [] v.t = "num"    -> v.n # 0
      [] v.t = "bool"   -> v.n # 0
      [] v.t = "str"    -> Len(v.s) > 0
      [] v.t = "list"   -> Len(v.items) > 0
      [] v.t = "obj"    -> v.n > 0

\* dict.get(key, default): the default only when the key is absent.
Get(v, default) == IF v.t = "absent" THEN default ELSE v

\* len(x) is defined for str, list and dict; TypeError otherwise.
HasLen(v) == v.t \in {"str", "list", "obj"}
PyLen(v)  == IF v.t = "list" THEN Len(v.items) ELSE v.n

\* A chronicle as the job sees it: any JSON value; an object carries the
\* keys 'id', 'quote' and 'chronicle_text' (each possibly absent).
Chronicle(t, id, quote, text) ==
    [t |-> t, id |-> id, quote |-> quote, chronicle_text |-> text]
ChronObj(id, quote) == Chronicle("obj", id, quote, JStr(<<>>))
ChronNum            == Chronicle("num", JAbsent, JAbsent, JAbsent)
ChronStr            == Chronicle("str", JAbsent, JAbsent, JAbsent)

\* `for chronicle in chronicles_data`: a list yields its elements, a str its
\* characters and a dict its keys (both strings).
Elements(v) ==
    IF v.t = "list" THEN v.items ELSE [k \in 1..v.n |-> ChronStr]

\* ------------------------------------------------------------------ inputs
Blank == <<" ", " ">>
Abc   == <<"a", "b">>

GoodItem1 == ChronObj(JNum(1), JStr(Abc))
GoodItem2 == ChronObj(JNum(2), JStr(<<>>))
DupItem1  == ChronObj(JNum(1), JStr(Blank))
NoIdItem  == ChronObj(JAbsent, JAbsent)
NullQuote == ChronObj(JNum(3), JNull)
BadQuote  == ChronObj(JNum(4), JNum(5))       \* truthy non-string quote

\* The chronicles values the intake accepts as a list of items.
ChroniclesLists ==
    { JList(<<GoodItem1>>),
      JList(<<GoodItem1, DupItem1>>),
      JList(<<NoIdItem, NullQuote>>),
      JList(<<GoodItem2, BadQuote>>),
      JList(<<ChronNum>>) }

\* Every chronicles value of the model: absent, falsy, truthy non-lists, lists.
ChroniclesValues ==
    { JAbsent, JNull, JList(<<>>), JNum(0), JNum(5), JBool(TRUE),
      JStr(Abc), JObj(1) } \cup ChroniclesLists

RequestIds == { JAbsent, JNull, JNum(0), JStr(<<>>), JNum(42), JStr(<<"r">>) }

\* An HTTP body: bytes that do not decode as UTF-8 ("undecodable"), text
\* that is not JSON ("notjson"), or a JSON document whose top-level value has
\* type `top`; an object carries the keys request_id and chronicles.
Body(kind, top, rid, chron) ==
    [kind |-> kind, top |-> top, request_id |-> rid, chronicles |-> chron]

ObjectBodies ==
    { Body("json", "obj", JNum(42), c) : c \in ChroniclesValues }
    \cup { Body("json", "obj", r, JList(<<GoodItem1>>)) : r \in RequestIds }
    \cup { Body("json", "obj", JAbsent, JAbsent),
           Body("json", "obj", JNum(0), JNum(5)) }

Bodies ==
    { Body("undecodable", "none", JAbsent, JAbsent),
      Body("notjson", "none", JAbsent, JAbsent),
      Body("json", "list", JAbsent, JAbsent),
      Body("json", "num", JAbsent, JAbsent) } \cup ObjectBodies

\* ------------------------------------------------------------------ scorer
\* str.strip(): drop leading and trailing whitespace.
RECURSIVE LStrip(_)
LStrip(chars) ==
    IF chars # <<>> /\ Head(chars) = " " THEN LStrip(Tail(chars)) ELSE chars
RECURSIVE RStrip(_)
RStrip(chars) ==
    IF chars # <<>> /\ chars[Len(chars)] = " "
    THEN RStrip(SubSeq(chars, 1, Len(chars) - 1)) ELSE chars
Strip(chars) == RStrip(LStrip(chars))

\* random.uniform(a, b) = a + (b - a) * random(), the draw u in units of 1e-4.
Uniform(a, b, u) == a + ((b - a) * u) \div 10000
\* The draws of random() a behaviour may see (units of 1e-4, in [0, 1)).
Draws == { 4, 9999 }

\* `quote and len(quote.strip()) > 0` raises AttributeError on a truthy
\* value that is not a string.
ScorerRaises(quote) == Truthy(quote) /\ quote.t # "str"

\* Mutant of calculate_chronicle_accuracy: the quote is tested without
\* strip(), so that a whitespace-only quote counts as non-empty.
calculate_chronicle_accuracy_unstripped(chronicle_research_id, quote, chronicle_text, u) ==
    IF Truthy(quote)
    THEN Uniform(70000, 100000, u)
    ELSE Uniform(0, 30000, u)

\* calculate_chronicle_accuracy: the accuracy in units of 1e-5.
calculate_chronicle_accuracy(chronicle_research_id, quote, chronicle_text, u) ==
    IF Truthy(quote) /\ Len(Strip(quote.s)) > 0
    THEN Uniform(70000, 100000, u)
    ELSE Uniform(0, 30000, u)

\* Mutant of Round4: the accuracy is stored as the scorer returned it.
Round4Omitted(x) == x

\* round(accuracy, 4): to the nearest multiple of 1e-4, ties to even.
Round4(x) ==
    LET q == x \div 10
        r == x % 10
    IN  IF r < 5 THEN q * 10
        ELSE IF r > 5 THEN (q + 1) * 10
        ELSE IF q % 2 = 0 THEN q * 10 ELSE (q + 1) * 10

\* ---------------------------------------------------------------- reporter
\* What requests.post does: it raises, or it returns a response with a status.
Outcome(exc, status) == [exc |-> exc, status |-> status]
PostOutcomes ==
    { Outcome("none", 200), Outcome("none", 304), Outcome("none", 500),
      Outcome("ConnectionError", 0), Outcome("Timeout", 0) }

\* response.raise_for_status() raises HTTPError for 4xx and 5xx only.
RaiseForStatus(status) == 400 <= status /\ status < 600

\* `except requests.exceptions.RequestException`
RequestException(exc) == exc \in { "HTTPError", "ConnectionError", "Timeout" }

\* send_results_to_main_service: the value returned, or the exception that
\* leaves the function.
send_results_to_main_service(o) ==
    LET exc == IF o.exc # "none" THEN o.exc
               ELSE IF RaiseForStatus(o.status) THEN "HTTPError" ELSE "none"
    IN  IF exc = "none" THEN [ret |-> "true", raised |-> FALSE]
        ELSE IF RequestException(exc) THEN [ret |-> "false", raised |-> FALSE]
        ELSE [ret |-> "none", raised |-> TRUE]

\* ------------------------------------------------------------------ intake
Response(status, error, rid, count) ==
    [status |-> status, error |-> error, request_id |-> rid,
     chronicles_count |-> count]

\* Mutant of process_chronicle_research: chronicles_count is len(data), the
\* number of keys of the body, instead of len(chronicles).
process_chronicle_research_len_data(b) ==
    LET request_id == Get(b.request_id, JNull)
        chronicles == Get(b.chronicles, JList(<<>>))
        ok == b.kind = "json" /\ b.top = "obj" /\ Truthy(request_id)
              /\ Truthy(chronicles)
    IN  [response |-> IF ok THEN Response(200, "", request_id, 2)
                      ELSE Response(400, "Invalid JSON", JAbsent, 0),
         submit |-> ok,
         request_id |-> IF ok THEN request_id ELSE JAbsent,
         chronicles |-> IF ok THEN chronicles ELSE JAbsent]

\* Mutant of process_chronicle_research: request_id is tested with
\* `is None` instead of truthiness, so that 0 and "" are accepted.
process_chronicle_research_is_none(b) ==
    LET request_id == Get(b.request_id, JNull)
        chronicles == Get(b.chronicles, JList(<<>>))
        Rejected(resp) == [response |-> resp, submit |-> FALSE,
                           request_id |-> JAbsent, chronicles |-> JAbsent]
    IN  CASE b.kind = "undecodable" ->
               Rejected(Response(500, "UnicodeDecodeError", JAbsent, 0))
          [] b.kind = "notjson" ->
               Rejected(Response(400, "Invalid JSON", JAbsent, 0))
          [] b.top # "obj" ->
               Rejected(Response(500, "AttributeError", JAbsent, 0))
          [] request_id.t = "null" ->
               Rejected(Response(400, "request_id is required", JAbsent, 0))
          [] ~Truthy(chronicles) ->
               Rejected(Response(400, "chronicles list is required", JAbsent, 0))
          [] OTHER ->
               [response |-> IF HasLen(chronicles)
                             THEN Response(200, "", request_id, PyLen(chronicles))
                             ELSE Response(500, "TypeError", JAbsent, 0),
                submit |-> TRUE,
                request_id |-> request_id, chronicles |-> chronicles]

\* Mutant of process_chronicle_research: the chronicles are validated before
\* the request_id.
process_chronicle_research_chronicles_first(b) ==
    LET request_id == Get(b.request_id, JNull)
        chronicles == Get(b.chronicles, JList(<<>>))
        Rejected(resp) == [response |-> resp, submit |-> FALSE,
                           request_id |-> JAbsent, chronicles |-> JAbsent]
    IN  CASE b.kind = "undecodable" ->
               Rejected(Response(500, "UnicodeDecodeError", JAbsent, 0))
          [] b.kind = "notjson" ->
               Rejected(Response(400, "Invalid JSON", JAbsent, 0))
          [] b.top # "obj" ->
               Rejected(Response(500, "AttributeError", JAbsent, 0))
          [] ~Truthy(chronicles) ->
               Rejected(Response(400, "chronicles list is required", JAbsent, 0))
          [] ~Truthy(request_id) ->
               Rejected(Response(400, "request_id is required", JAbsent, 0))
          [] OTHER ->
               [response |-> IF HasLen(chronicles)
                             THEN Response(200, "", request_id, PyLen(chronicles))
                             ELSE Response(500, "TypeError", JAbsent, 0),
                submit |-> TRUE,
                request_id |-> request_id, chronicles |-> chronicles]

\* Mutant of process_chronicle_research: no generic `except Exception`, so
\* that an error other than JSONDecodeError leaves the view uncaught
\* (status 0: no response was built).
process_chronicle_research_no_generic_except(b) ==
    LET request_id == Get(b.request_id, JNull)
        chronicles == Get(b.chronicles, JList(<<>>))
        Rejected(resp) == [response |-> resp, submit |-> FALSE,
                           request_id |-> JAbsent, chronicles |-> JAbsent]
    IN  CASE b.kind = "undecodable" ->
               Rejected(Response(0, "UnicodeDecodeError", JAbsent, 0))
          [] b.kind = "notjson" ->
               Rejected(Response(400, "Invalid JSON", JAbsent, 0))
          [] b.top # "obj" ->
               Rejected(Response(0, "AttributeError", JAbsent, 0))
          [] ~Truthy(request_id) ->
               Rejected(Response(400, "request_id is required", JAbsent, 0))
          [] ~Truthy(chronicles) ->
               Rejected(Response(400, "chronicles list is required", JAbsent, 0))
          [] OTHER ->
               [response |-> IF HasLen(chronicles)
                             THEN Response(200, "", request_id, PyLen(chronicles))
                             ELSE Response(0, "TypeError", JAbsent, 0),
                submit |-> TRUE,
                request_id |-> request_id, chronicles |-> chronicles]

\* process_chronicle_research as a function of the body: the response, whether
\* executor.submit was called, and the arguments of the submitted job.
process_chronicle_research(b) ==
    LET request_id == Get(b.request_id, JNull)
        chronicles == Get(b.chronicles, JList(<<>>))
        Rejected(resp) == [response |-> resp, submit |-> FALSE,
                           request_id |-> JAbsent, chronicles |-> JAbsent]
    IN  CASE b.kind = "undecodable" ->
               Rejected(Response(500, "UnicodeDecodeError", JAbsent, 0))
          [] b.kind = "notjson" ->
               Rejected(Response(400, "Invalid JSON", JAbsent, 0))
          [] b.top # "obj" ->
               Rejected(Response(500, "AttributeError", JAbsent, 0))
          [] ~Truthy(request_id) ->
               Rejected(Response(400, "request_id is required", JAbsent, 0))
          [] ~Truthy(chronicles) ->
               Rejected(Response(400, "chronicles list is required", JAbsent, 0))
          [] OTHER ->
               [response |-> IF HasLen(chronicles)
                             THEN Response(200, "", request_id, PyLen(chronicles))
                             ELSE Response(500, "TypeError", JAbsent, 0),
                submit |-> TRUE,
                request_id |-> request_id, chronicles |-> chronicles]

\* ------------------------------------------------------------------- state
VARIABLES
    nreq,       \* number of requests the intake has answered
    body,       \* body[r]: the body of request r
    response,   \* response[r]: the response to request r
    queue,      \* the executor's work queue: submitted jobs not yet started
    job,        \* job[r]: the job submitted for request r
    sent        \* sent[r]: the outbound POSTs made for job r, in order

vars == <<nreq, body, response, queue, job, sent>>

Job(pc, rid, chron, i, results, success) ==
    [pc |-> pc, request_id |-> rid, chronicles |-> chron, i |-> i,
     results |-> results, success |-> success]
NoJob == Job("none", JAbsent, JAbsent, 0, <<>>, "none")

\* Requests are numbered in the order the intake answers them; body,
\* response, job and sent are sequences indexed by that number.
Init ==
    /\ nreq = 0
    /\ body = <<>>
    /\ response = <<>>
    /\ queue = <<>>
    /\ job = <<>>
    /\ sent = <<>>

Requests == 1..nreq

\* The jobs a worker thread is executing.
Running == { r \in Requests : job[r].pc = "running" }

\* Mutant of Submit: a bounded pool that rejects the job when every worker
\* is busy.
SubmitUnlessSaturated(q, r) ==
    IF Cardinality(Running) >= max_workers THEN q ELSE Append(q, r)

\* Mutant of Submit: the job is handed to the executor twice.
SubmitTwice(q, r) == Append(Append(q, r), r)

\* executor.submit: append to the unbounded work queue, never blocks.
Submit(q, r) == Append(q, r)

\* One inbound POST, handled from the parse to the response.
Intake(b, limit) ==
    LET r   == nreq + 1
        out == process_chronicle_research(b)
    IN  /\ nreq < limit
        /\ nreq' = r
        /\ body' = Append(body, b)
        /\ response' = Append(response, out.response)
        /\ IF out.submit
           THEN /\ queue' = Submit(queue, r)
                /\ job' = Append(job,
                              Job("queued", out.request_id, out.chronicles,
                                  0, <<>>, "none"))
           ELSE /\ queue' = queue
                /\ job' = Append(job, NoJob)
        /\ sent' = Append(sent, <<>>)

\* ---------------------------------------------------------------- the job
\* Mutant of StartJob: a thread is spawned for every queued job, whatever the
\* number of threads already busy.
StartJobUnbounded(r) ==
    /\ queue # <<>>
    /\ r = Head(queue)
    /\ queue' = Tail(queue)
    /\ job' = [job EXCEPT ![r].pc = "running"]
    /\ UNCHANGED <<nreq, body, response, sent>>

\* A worker thread takes the oldest job off the work queue; at most
\* max_workers threads exist, each running one job at a time.
StartJob(r) ==
    /\ queue # <<>>
    /\ r = Head(queue)
    /\ Cardinality(Running) < max_workers
    /\ queue' = Tail(queue)
    /\ job' = [job EXCEPT ![r].pc = "running"]
    /\ UNCHANGED <<nreq, body, response, sent>>

\* The chronicle the loop is about to process.
Current(j) == Elements(j.chronicles)[j.i + 1]

\* The statement of the job that raises next, if any: len() of the
\* chronicles, chronicle.get on something that is no dict, or the scorer.
Raises(j) ==
    \/ ~HasLen(j.chronicles)
    \/ /\ j.i < PyLen(j.chronicles)
       /\ \/ Current(j).t # "obj"
          \/ ScorerRaises(Get(Current(j).quote, JStr(<<>>)))

\* Mutant of ScoreItem: results are keyed by id, so that a repeated id
\* overwrites the earlier result instead of adding one.
ScoreItemKeyed(r, u) ==
    LET j == job[r]
        id == Get(Current(j).id, JNull)
        quote == Get(Current(j).quote, JStr(<<>>))
        result == [chronicle_research_id |-> id,
                   accuracy |-> Round4(calculate_chronicle_accuracy(
                                    id, quote, JStr(<<>>), u))]
        same == { k \in 1..Len(j.results) : j.results[k].chronicle_research_id = id }
    IN  /\ j.pc = "running"
        /\ ~Raises(j)
        /\ j.i < PyLen(j.chronicles)
        /\ job' = [job EXCEPT
                     ![r].i = j.i + 1,
                     ![r].results =
                         IF same = {} THEN Append(j.results, result)
                         ELSE [k \in 1..Len(j.results) |->
                                  IF k \in same THEN result ELSE j.results[k]]]
        /\ UNCHANGED <<nreq, body, response, queue, sent>>

\* Mutant of ScoreItem: the result is inserted at the head of the list.
ScoreItemPrepend(r, u) ==
    LET j == job[r]
        chronicle == Current(j)
        chronicle_research_id == Get(chronicle.id, JNull)
        quote == Get(chronicle.quote, JStr(<<>>))
        chronicle_text == Get(chronicle.chronicle_text, JStr(<<>>))
        accuracy == calculate_chronicle_accuracy(
                        chronicle_research_id, quote, chronicle_text, u)
    IN  /\ j.pc = "running"
        /\ ~Raises(j)
        /\ j.i < PyLen(j.chronicles)
        /\ job' = [job EXCEPT
                     ![r].i = j.i + 1,
                     ![r].results =
                         <<[chronicle_research_id |-> chronicle_research_id,
                            accuracy |-> Round4(accuracy)]>> \o j.results]
        /\ UNCHANGED <<nreq, body, response, queue, sent>>

\* One iteration of the loop: extract, score, append the rounded result.
ScoreItem(r, u) ==
    LET j == job[r]
        chronicle == Current(j)
        chronicle_research_id == Get(chronicle.id, JNull)
        quote == Get(chronicle.quote, JStr(<<>>))
        chronicle_text == Get(chronicle.chronicle_text, JStr(<<>>))
        accuracy == calculate_chronicle_accuracy(
                        chronicle_research_id, quote, chronicle_text, u)
    IN  /\ j.pc = "running"
        /\ ~Raises(j)
        /\ j.i < PyLen(j.chronicles)
        /\ job' = [job EXCEPT
                     ![r].i = j.i + 1,
                     ![r].results = Append(j.results,
                         [chronicle_research_id |-> chronicle_research_id,
                          accuracy |-> Round4(accuracy)])]
        /\ UNCHANGED <<nreq, body, response, queue, sent>>

\* Mutant of AbortJob: the exception is caught and what was scored so far is
\* reported.
AbortJobPartial(r) ==
    /\ job[r].pc = "running"
    /\ Raises(job[r])
    /\ sent' = [sent EXCEPT ![r] = Append(@,
                   [request_id |-> job[r].request_id,
                    results |-> job[r].results,
                    outcome |-> Outcome("none", 200)])]
    /\ job' = [job EXCEPT ![r].pc = "aborted"]
    /\ UNCHANGED <<nreq, body, response, queue>>

\* Mutant of AbortJob: the exception ends the worker thread and the executor
\* does not replace it, so that the job keeps its place among the running.
AbortJobKeepsWorker(r) ==
    /\ job[r].pc = "running"
    /\ Raises(job[r])
    /\ job[r].success = "none"
    /\ job' = [job EXCEPT ![r].success = "lost"]
    /\ UNCHANGED <<nreq, body, response, queue, sent>>

\* An exception leaves process_chronicle_research_async: the executor stores
\* it in the future nobody reads, and the worker thread is free again.
AbortJob(r) ==
    /\ job[r].pc = "running"
    /\ Raises(job[r])
    /\ job' = [job EXCEPT ![r].pc = "aborted"]
    /\ UNCHANGED <<nreq, body, response, queue, sent>>

\* Mutant of Report: a failed POST is retried once.
ReportRetry(r, o) ==
    LET j == job[r]
        rv == send_results_to_main_service(o)
        post == [request_id |-> j.request_id, results |-> j.results,
                 outcome |-> o]
    IN  /\ j.pc = "running"
        /\ ~Raises(j)
        /\ j.i = PyLen(j.chronicles)
        /\ sent' = [sent EXCEPT ![r] =
                       IF rv.ret = "true" THEN Append(@, post)
                       ELSE Append(Append(@, post), post)]
        /\ job' = [job EXCEPT ![r].pc = "done", ![r].success = rv.ret]
        /\ UNCHANGED <<nreq, body, response, queue>>

\* Mutant of Report: the reporter is called without waiting for the end of
\* the loop.
ReportEarly(r, o) ==
    LET j == job[r]
        rv == send_results_to_main_service(o)
    IN  /\ j.pc = "running"
        /\ ~Raises(j)
        /\ sent' = [sent EXCEPT ![r] = Append(@,
                       [request_id |-> j.request_id, results |-> j.results,
                        outcome |-> o])]
        /\ job' = [job EXCEPT
                     ![r].pc = IF rv.raised THEN "aborted" ELSE "done",
                     ![r].success = rv.ret]
        /\ UNCHANGED <<nreq, body, response, queue>>

\* Mutant of Report: the request_id is read from a variable shared by the
\* jobs, which holds the request_id of the job submitted last.
ReportSharedId(r, o) ==
    LET j == job[r]
        rv == send_results_to_main_service(o)
        last == CHOOSE q \in Requests :
                    /\ job[q].pc # "none"
                    /\ \A p \in Requests : job[p].pc # "none" => p <= q
    IN  /\ j.pc = "running"
        /\ ~Raises(j)
        /\ j.i = PyLen(j.chronicles)
        /\ sent' = [sent EXCEPT ![r] = Append(@,
                       [request_id |-> job[last].request_id, results |-> j.results,
                        outcome |-> o])]
        /\ job' = [job EXCEPT
                     ![r].pc = IF rv.raised THEN "aborted" ELSE "done",
                     ![r].success = rv.ret]
        /\ UNCHANGED <<nreq, body, response, queue>>

\* After the loop: one call of send_results_to_main_service, which makes one
\* requests.post to the URL built from request_id, and the final log line.
Report(r, o) ==
    LET j == job[r]
        rv == send_results_to_main_service(o)
    IN  /\ j.pc = "running"
        /\ ~Raises(j)
        /\ j.i = PyLen(j.chronicles)
        /\ sent' = [sent EXCEPT ![r] = Append(@,
                       [request_id |-> j.request_id, results |-> j.results,
                        outcome |-> o])]
        /\ job' = [job EXCEPT
                     ![r].pc = IF rv.raised THEN "aborted" ELSE "done",
                     ![r].success = rv.ret]
        /\ UNCHANGED <<nreq, body, response, queue>>

\* ---------------------------------------------------------- specifications
Worker ==
    \/ \E r \in Requests : StartJob(r)
    \/ \E r \in Requests : \E u \in Draws : ScoreItem(r, u)
    \/ \E r \in Requests : AbortJob(r)
    \/ \E r \in Requests : \E o \in PostOutcomes : Report(r, o)

Next ==
    \/ \E b \in Bodies : Intake(b, MaxRequests)
    \/ Worker

Spec == Init /\ [][Next]_vars

\* The pipeline end to end under fair scheduling: accepted requests whose
\* scoring succeeds or fails, one rejected request, one draw, and a downstream
\* that answers 200 or cannot be reached.
FairBodies ==
    { Body("json", "obj", JNum(42), JList(<<GoodItem1, DupItem1>>)),
      Body("json", "obj", JStr(<<"r">>), JList(<<GoodItem1>>)),
      Body("json", "obj", JNum(42), JList(<<GoodItem2, BadQuote>>)),
      Body("json", "obj", JNum(42), JStr(Abc)),
      Body("json", "obj", JAbsent, JList(<<GoodItem1>>)) }
FairDraws    == { 9999 }
FairOutcomes == { Outcome("none", 200), Outcome("ConnectionError", 0) }

FairWorker ==
    \/ \E r \in Requests : StartJob(r)
    \/ \E r \in Requests : \E u \in FairDraws : ScoreItem(r, u)
    \/ \E r \in Requests : AbortJob(r)
    \/ \E r \in Requests : \E o \in FairOutcomes : Report(r, o)

FairNext ==
    \/ \E b \in FairBodies : Intake(b, MaxRequests)
    \/ FairWorker

\* Threads are scheduled fairly, the scorer's sleep ends and requests.post
\* returns or raises within its timeout: a worker step that stays possible
\* is eventually taken.
FairSpec == Init /\ [][FairNext]_vars /\ WF_vars(FairWorker)

\* The pool under load: more accepted requests than workers, every request
\* with a one-item body on which the scorer raises, so that a job holds its
\* worker from its start to the exception.
PoolBodies == { Body("json", "obj", JNum(42), JList(<<BadQuote>>)) }

PoolWorker ==
    \/ \E r \in Requests : StartJob(r)
    \/ \E r \in Requests : AbortJob(r)

PoolNext ==
    \/ \E b \in PoolBodies : Intake(b, PoolRequests)
    \/ PoolWorker

PoolSpec == Init /\ [][PoolNext]_vars

\* Threads are scheduled fairly and the scorer's sleep ends.
FairPoolSpec == PoolSpec /\ WF_vars(PoolWorker)

\* The pool under load with every way a job can end: the first request is
\* one whose job scores and reports (the downstream answers 200 or cannot be
\* reached) or scores one item and fails on the next; the requests after it
\* fail in the scorer at once.
ReleaseBodies ==
    { Body("json", "obj", JStr(<<"r">>), JList(<<GoodItem1>>)),
      Body("json", "obj", JNum(42), JList(<<GoodItem2, BadQuote>>)) }

ReleaseNext ==
    \/ \E b \in ReleaseBodies : nreq = 0 /\ Intake(b, PoolRequests)
    \/ \E b \in PoolBodies : nreq > 0 /\ Intake(b, PoolRequests)
    \/ FairWorker

FairReleaseSpec == Init /\ [][ReleaseNext]_vars /\ WF_vars(FairWorker)

\* ------------------------------------------------------------------ claims
\* What the claims call a valid request: a JSON object with a truthy
\* request_id and a non-empty list of chronicles.
ValidRequest(b) ==
    /\ b.kind = "json" /\ b.top = "obj"
    /\ Truthy(b.request_id)
    /\ b.chronicles.t = "list" /\ Len(b.chronicles.items) > 0

\* Number of positions of a sequence that hold v.
Count(seq, v) == Cardinality({ k \in 1..Len(seq) : seq[k] = v })
\* The identifiers of the input items and of the results, in order.
ItemIds(items)     == [k \in 1..Len(items) |-> Get(items[k].id, JNull)]
ResultIds(results) == [k \in 1..Len(results) |-> results[k].chronicle_research_id]

\* C1: a request with a truthy request_id and a non-empty chronicles list is
\* answered 200 in the very step that enqueues exactly one job for it; that
\* step starts no job, finishes none and sends nothing, and no later step of
\* the job (success, failed report, abort) changes a response already given.
C1_AcceptedWithoutWaiting ==
    [][ /\ \A r \in Requests : response'[r] = response[r]
        /\ \A r \in 1..nreq' :
              (r \notin Requests /\ ValidRequest(body'[r])) =>
                 /\ response'[r].status = 200
                 /\ queue' = Append(queue, r)
                 /\ \A k \in 1..Len(queue) : queue[k] # r
                 /\ job'[r].pc = "queued"
                 /\ \A q \in Requests : job'[q] = job[q]
                 /\ \A q \in Requests : sent'[q] = sent[q]
                 /\ sent'[r] = <<>> ]_vars

\* C1 witness: a valid request already holds its 200 while its job is running
\* with no item scored, behind another accepted job that has not even started.
C1_Witness ==
    \E r \in Requests : \E q \in Requests :
        /\ ValidRequest(body[r]) /\ response[r].status = 200
        /\ job[r].pc = "running" /\ job[r].i = 0
        /\ ValidRequest(body[q]) /\ response[q].status = 200
        /\ job[q].pc = "queued"

\* C2: every invalid request (malformed body, missing request_id, missing or
\* empty chronicles) is answered 400 with the corresponding error, creates no
\* job and never reaches the reporter.
C2_InvalidRejected400 ==
    \A r \in Requests :
        LET b == body[r]
            expected ==
                CASE b.kind \in {"undecodable", "notjson"} -> "Invalid JSON"
                  [] b.kind = "json" /\ b.top = "obj"
                     /\ b.request_id.t = "absent" -> "request_id is required"
                  [] b.kind = "json" /\ b.top = "obj" /\ Truthy(b.request_id)
                     /\ (b.chronicles.t = "absent" \/ b.chronicles = JList(<<>>))
                       -> "chronicles list is required"
                  [] OTHER -> "not invalid"
        IN  expected # "not invalid" =>
                /\ response[r].status = 400
                /\ response[r].error = expected
                /\ job[r].pc = "none"
                /\ sent[r] = <<>>
                /\ \A k \in 1..Len(queue) : queue[k] # r

\* C3: every batch handed to the reporter has one result per input item and
\* the same identifiers with the same multiplicities (a bijection), also with
\* repeated or absent ids; a job that ran to its end handed over such a batch.
C3_ResultsMatchItems ==
    \A r \in Requests :
        /\ job[r].pc = "done" => Len(sent[r]) >= 1
        /\ \A p \in 1..Len(sent[r]) :
              LET items   == ItemIds(body[r].chronicles.items)
                  results == ResultIds(sent[r][p].results)
              IN  /\ body[r].chronicles.t = "list"
                  /\ Len(results) = Len(items)
                  /\ \A k \in 1..Len(items) :
                        Count(results, items[k]) = Count(items, items[k])
                  /\ \A k \in 1..Len(results) :
                        Count(items, results[k]) >= 1

\* C3 witness: batches were reported for a payload with a repeated id and for
\* one with an absent id.
C3_Witness ==
    /\ \E r \in Requests : /\ body[r].chronicles = JList(<<GoodItem1, DupItem1>>)
                           /\ sent[r] # <<>>
    /\ \E r \in Requests : /\ body[r].chronicles = JList(<<NoIdItem, NullQuote>>)
                           /\ sent[r] # <<>>

\* C4: the reporter is invoked at most once per job and exactly once for a
\* job that ran to its end, each invocation being one POST; a failed POST is
\* followed by no second POST, and a job that has started is never back on
\* the queue.
C4_SentExactlyOnce ==
    \A r \in Requests :
        /\ Len(sent[r]) <= 1
        /\ job[r].pc = "done" => Len(sent[r]) = 1
        /\ job[r].success # "none" => (job[r].pc = "done" /\ Len(sent[r]) = 1)
        /\ Cardinality({ k \in 1..Len(queue) : queue[k] = r })
              = IF job[r].pc = "queued" THEN 1 ELSE 0

\* C4 witness: a job ended after a failed POST, with that one POST on record,
\* and is not on the queue.
C4_Witness ==
    \E r \in Requests :
        /\ job[r].pc = "done" /\ job[r].success = "false"
        /\ Len(sent[r]) = 1
        /\ sent[r][1].outcome \in { Outcome("none", 500), Outcome("Timeout", 0) }

\* C5: a job that aborted before all of its items were scored never invoked
\* the reporter: nothing was sent for it, whatever it had already scored.
C5_NoPartialReport ==
    \A r \in Requests :
        (job[r].pc = "aborted" /\ job[r].i < PyLen(job[r].chronicles))
            => sent[r] = <<>>

\* C5 witness: a job aborted on its second item with the first already scored.
C5_Witness ==
    \E r \in Requests :
        /\ job[r].pc = "aborted"
        /\ job[r].i = 1 /\ Len(job[r].results) = 1
        /\ PyLen(job[r].chronicles) = 2

\* C6: the reporter returns false without raising when the downstream is
\* unreachable, times out or answers a non-2xx status, and true only on a
\* 2xx answer.
C6_ReporterBoolean ==
    \A r \in Requests : \A p \in 1..Len(sent[r]) :
        LET o == sent[r][p].outcome
            success2xx == o.exc = "none" /\ 200 <= o.status /\ o.status < 300
        IN  /\ job[r].pc = "done"
            /\ job[r].success = IF success2xx THEN "true" ELSE "false"

\* C10: every accuracy of every batch handed to the reporter is a whole
\* number of 1e-4 units between 0 and 10000 (here: a multiple of 10 in units
\* of 1e-5, between 0 and 100000).
C10_AccuracyRounded ==
    \A r \in Requests : \A p \in 1..Len(sent[r]) :
        \A k \in 1..Len(sent[r][p].results) :
            LET a == sent[r][p].results[k].accuracy
            IN  /\ a % 10 = 0
                /\ (a \div 10) \in 0..10000

\* C10 witness: a batch was sent that holds a rounded-down and a rounded-up
\* accuracy, neither of them the scorer's raw value.
C10_Witness ==
    \E r \in Requests : \E p \in 1..Len(sent[r]) :
        LET results == sent[r][p].results
        IN  /\ \E k \in 1..Len(results) :
                  results[k].accuracy = 70010
                  /\ Uniform(70000, 100000, 4) = 70012
            /\ \E k \in 1..Len(results) :
                  results[k].accuracy = 30000
                  /\ Uniform(0, 30000, 9999) = 29997

\* C8: at most max_workers (10) jobs execute at once, hence at most that
\* many scorer invocations are in progress, however many requests were
\* accepted; an accepted job that has not started is on the queue.
C8_PoolBound ==
    /\ Cardinality(Running) <= 10
    /\ Cardinality({ r \in Running : job[r].i < PyLen(job[r].chronicles) }) <= 10
    /\ \A r \in Requests :
          (response[r].status = 200 /\ job[r].pc \notin {"running", "done", "aborted"})
              => \E k \in 1..Len(queue) : queue[k] = r

\* C8 witness: ten jobs are at their scorer call at once and an eleventh
\* accepted job waits on the queue.
C8_Witness ==
    /\ Cardinality({ r \in Running : job[r].i < PyLen(job[r].chronicles) }) = 10
    /\ queue # <<>>
    /\ response[Head(queue)].status = 200

\* Every item of the body is scored without an exception.
ScoringSucceeds(b) ==
    /\ b.chronicles.t = "list"
    /\ \A k \in 1..Len(b.chronicles.items) :
          /\ b.chronicles.items[k].t = "obj"
          /\ ~ScorerRaises(Get(b.chronicles.items[k].quote, JStr(<<>>)))

\* The reporter was invoked for request r with the acknowledged request_id
\* and one result per acknowledged item.
ReportedAsAcknowledged(r) ==
    /\ r \in Requests
    /\ sent[r] # <<>>
    /\ sent[r][1].request_id = response[r].request_id
    /\ sent[r][1].request_id = body[r].request_id
    /\ Len(sent[r][1].results) = response[r].chronicles_count

\* C9: the acknowledgement of an accepted request carries the submitted
\* request_id and the number of items as chronicles_count, and under fair
\* scheduling, when scoring does not fail, the reporter is eventually invoked
\* with that request_id and one result per acknowledged item.
C9_AckThenReport ==
    /\ [](\A r \in Requests :
            response[r].status = 200 =>
                /\ response[r].request_id = body[r].request_id
                /\ response[r].chronicles_count
                      = IF body[r].chronicles.t = "list"
                        THEN Len(body[r].chronicles.items)
                        ELSE body[r].chronicles.n)
    /\ \A r \in 1..MaxRequests :
          (r \in Requests /\ response[r].status = 200 /\ ScoringSucceeds(body[r]))
              ~> ReportedAsAcknowledged(r)

\* C9 witness: a two-item request acknowledged with chronicles_count 2 has been
\* reported with its request_id and two results.
C9_Witness ==
    \E r \in Requests :
        /\ response[r].status = 200 /\ response[r].chronicles_count = 2
        /\ ScoringSucceeds(body[r])
        /\ ReportedAsAcknowledged(r)

\* C7: with more jobs submitted than the pool has workers, every submission
\* is accepted at once whatever the saturation (the intake stays enabled and
\* its step enqueues the job), no job leaves the queue except by starting on
\* a worker, and under fair scheduling every queued job eventually starts.
C7_AllJobsStart ==
    /\ [](nreq < PoolRequests =>
            ENABLED (\E b \in PoolBodies : Intake(b, PoolRequests)))
    /\ [][ \A r \in 1..nreq' : r \notin Requests =>
              /\ response'[r].status = 200
              /\ queue' = Append(queue, r) ]_vars
    /\ [][ \A k \in 1..Len(queue) :
              (\A m \in 1..Len(queue') : queue'[m] # queue[k])
                  => (job[queue[k]].pc = "queued" /\ job'[queue[k]].pc = "running") ]_vars
    /\ \A r \in 1..PoolRequests :
          (r \in Requests /\ job[r].pc = "queued")
              ~> (r \in Requests /\ job[r].pc \in {"running", "done", "aborted"})

\* C7 witness: more jobs than workers were submitted, all were accepted, ten
\* are executing and the others wait on the queue.
C7_Witness ==
    /\ nreq > 10
    /\ \A r \in Requests : response[r].status = 200
    /\ Cardinality(Running) = 10
    /\ Len(queue) = nreq - 10

\* The request_id values Python treats as false: absent (None), null, the
\* empty string and the number 0.
FalsyRequestIds == { JAbsent, JNull, JStr(<<>>), JNum(0) }

\* C11: the scorer returns an accuracy in [0.7, 1.0] for a quote that is not
\* blank and in [0.0, 0.3] for an empty, whitespace-only or absent quote, for
\* every draw, and so does every result a job has recorded.
C11_ScorerPolicy ==
    /\ \A u \in { 0, 4, 5000, 9999 } :
          /\ \A q \in { Abc, <<" ", "a">>, <<"a", " ">> } :
                calculate_chronicle_accuracy(JNum(1), JStr(q), JStr(<<>>), u)
                    \in 70000..100000
          /\ \A q \in { <<>>, <<" ">>, Blank } :
                calculate_chronicle_accuracy(JNum(1), JStr(q), JStr(<<>>), u)
                    \in 0..30000
    /\ \A r \in Requests : \A k \in 1..Len(job[r].results) :
          LET quote == body[r].chronicles.items[k].quote
              a == job[r].results[k].accuracy
              blank == \/ quote.t = "absent"
                       \/ quote.t = "str" /\ \A c \in 1..Len(quote.s) : quote.s[c] = " "
          IN  /\ (quote.t = "str" /\ ~blank) => a \in 70000..100000
              /\ blank => a \in 0..30000

\* C11 witness: results were recorded for a non-blank quote, for a
\* whitespace-only quote and for an item without a quote.
C11_Witness ==
    /\ \E r \in Requests : /\ body[r].chronicles = JList(<<GoodItem1, DupItem1>>)
                           /\ Len(job[r].results) = 2
    /\ \E r \in Requests : /\ body[r].chronicles = JList(<<NoIdItem, NullQuote>>)
                           /\ Len(job[r].results) >= 1

\* C12: every job handed to the executor carries a truthy request_id; a body
\* whose request_id is absent, null, "" or 0 is answered 400 'request_id is
\* required' and creates no job.
C12_RequestIdTruthy ==
    \A r \in Requests :
        /\ job[r].pc # "none" =>
              /\ Truthy(job[r].request_id)
              /\ job[r].request_id \notin FalsyRequestIds
              /\ job[r].request_id = body[r].request_id
        /\ (body[r].kind = "json" /\ body[r].top = "obj"
            /\ body[r].request_id \in FalsyRequestIds) =>
              /\ response[r].status = 400
              /\ response[r].error = "request_id is required"
              /\ job[r].pc = "none"

\* C12 witness: a request with request_id 0 and one with request_id "" were
\* rejected while a job with a truthy request_id is on the executor.
C12_Witness ==
    /\ \E r \in Requests : /\ body[r].request_id \in { JNum(0), JStr(<<>>) }
                           /\ response[r].status = 400
    /\ \E r \in Requests : job[r].pc # "none"

\* C13: the rules are checked in the order parse, request_id, chronicles: a
\* body that does not parse never gets a field error, a parseable object
\* with a falsy request_id gets 'request_id is required' whatever its
\* chronicles, and 'chronicles list is required' is given only to a body
\* whose request_id passed.
C13_ValidationOrder ==
    \A r \in Requests :
        LET b == body[r]
            fieldErrors == { "request_id is required", "chronicles list is required" }
        IN  /\ b.kind \in {"undecodable", "notjson"} => response[r].error \notin fieldErrors
            /\ b.kind = "notjson" => response[r].error = "Invalid JSON"
            /\ (b.kind = "json" /\ b.top = "obj" /\ ~Truthy(b.request_id))
                  => response[r].error = "request_id is required"
            /\ response[r].error = "chronicles list is required"
                  => (b.kind = "json" /\ b.top = "obj" /\ Truthy(b.request_id)
                      /\ ~Truthy(Get(b.chronicles, JList(<<>>))))

\* C13 witness: a parseable body without request_id and without chronicles
\* was answered 'request_id is required'.
C13_Witness ==
    \E r \in Requests :
        /\ body[r] = Body("json", "obj", JAbsent, JAbsent)
        /\ response[r].status = 400
        /\ response[r].error = "request_id is required"

\* C14: every intake response has status 200, 400 or 500, and an unexpected
\* error of the intake (a JSON body that is no object, len() of chronicles
\* that have none) is answered 500 with the error's text.
C14_UnexpectedIs500 ==
    \A r \in Requests :
        /\ response[r].status \in { 200, 400, 500 }
        /\ (body[r].kind = "json" /\ body[r].top # "obj") =>
              /\ response[r].status = 500
              /\ response[r].error = "AttributeError"
        /\ (body[r].kind = "json" /\ body[r].top = "obj"
            /\ Truthy(body[r].request_id)
            /\ body[r].chronicles.t \in {"num", "bool"}
            /\ Truthy(body[r].chronicles)) =>
              /\ response[r].status = 500
              /\ response[r].error = "TypeError"
        /\ response[r].status = 500 => response[r].error # ""

\* C14 witness: a JSON list was posted as the body and answered 500.
C14_Witness ==
    \E r \in Requests :
        /\ body[r].kind = "json" /\ body[r].top = "list"
        /\ response[r].status = 500

\* The job of request r has left the queue.
Started(r) == job[r].pc \in { "running", "done", "aborted" }

\* C15: a job scores its items one at a time in input order: the results
\* recorded so far are those of the first i items, a step scores at most the
\* next item and leaves the recorded results alone, and the reporter is
\* called only when every item has been scored.
C15_SequentialScoring ==
    /\ [](\A r \in Requests :
            /\ Len(job[r].results) = job[r].i
            /\ HasLen(job[r].chronicles) =>
                  /\ job[r].i <= PyLen(job[r].chronicles)
                  /\ ResultIds(job[r].results)
                        = SubSeq(ItemIds(Elements(job[r].chronicles)), 1, job[r].i)
            /\ sent[r] # <<>> => job[r].i = PyLen(job[r].chronicles))
    /\ [][\A r \in Requests :
            /\ job'[r].i \in { job[r].i, job[r].i + 1 }
            /\ SubSeq(job'[r].results, 1, job[r].i) = job[r].results
            /\ sent'[r] # sent[r] =>
                  /\ job[r].i = PyLen(job[r].chronicles)
                  /\ job'[r].i = job[r].i]_vars

\* C15 witness: a job of two items has scored the first, not yet the second,
\* and has reported nothing.
C15_Witness ==
    \E r \in Requests :
        /\ job[r].pc = "running"
        /\ PyLen(job[r].chronicles) = 2
        /\ job[r].i = 1
        /\ Len(job[r].results) = 1
        /\ sent[r] = <<>>

\* C16: jobs are isolated: a job keeps the request_id and the chronicles of
\* its own request, the batch it reports holds the results of its own items
\* under its own request_id, and a step of one job or of the intake changes
\* no other job's record and no other job's report.
C16_JobIsolation ==
    /\ [](\A r \in Requests :
            /\ job[r].pc # "none" =>
                  /\ job[r].request_id = body[r].request_id
                  /\ job[r].chronicles = body[r].chronicles
            /\ \A p \in 1..Len(sent[r]) :
                  /\ sent[r][p].request_id = body[r].request_id
                  /\ ResultIds(sent[r][p].results)
                        = ItemIds(Elements(body[r].chronicles))
                  /\ sent[r][p].results = job[r].results)
    /\ [][\A r \in Requests :
            (job'[r] # job[r] \/ sent'[r] # sent[r]) =>
                \A q \in Requests \ {r} :
                    job'[q] = job[q] /\ sent'[q] = sent[q]]_vars

\* C16 witness: two jobs with different request_ids and different items
\* have both reported.
C16_Witness ==
    \E r, q \in Requests :
        /\ r < q
        /\ sent[r] # <<>> /\ sent[q] # <<>>
        /\ sent[r][1].request_id # sent[q][1].request_id
        /\ Len(sent[r][1].results) = 2
        /\ Len(sent[q][1].results) = 1

\* C17: a job is handed to the executor exactly when the request is
\* answered 200; no request answered 400 or 500 leaves a job behind.
C17_EnqueuedIff200 ==
    \A r \in Requests :
        (job[r].pc # "none") <=> (response[r].status = 200)

\* C19: a reported batch lists its results in the order of the input items:
\* the k-th result carries the id of the k-th item.
C19_ResultsInInputOrder ==
    \A r \in Requests : \A p \in 1..Len(sent[r]) :
        LET items == Elements(body[r].chronicles)
            results == sent[r][p].results
        IN  /\ Len(results) = Len(items)
            /\ \A k \in 1..Len(results) :
                  results[k].chronicle_research_id = Get(items[k].id, JNull)

\* C19 witness: a batch was reported for two items with different ids, the
\* first without an id (null) and the second with id 3.
C19_Witness ==
    \E r \in Requests :
        /\ body[r].chronicles = JList(<<NoIdItem, NullQuote>>)
        /\ Len(sent[r]) = 1
        /\ ResultIds(sent[r][1].results) = <<JNull, JNum(3)>>

\* C18: under fair scheduling every job that starts leaves its worker, by
\* a report (successful or failed) or by an abort: a job leaves the running
\* set only by ending, which frees one worker, an ended job never runs
\* again, and whenever jobs are running a moment follows at which none is,
\* so that no job runs for ever. No capacity is lost: whenever jobs wait
\* behind a full pool a moment follows at which the queue is empty, every
\* one of them started.
C18_WorkersReleased ==
    /\ [][\A r \in Requests :
            /\ job[r].pc \in {"done", "aborted"} => job'[r].pc = job[r].pc
            /\ (job[r].pc = "running" /\ job'[r].pc # "running") =>
                  /\ job'[r].pc \in {"done", "aborted"}
                  /\ Cardinality({ q \in Requests : job'[q].pc = "running" })
                        = Cardinality(Running) - 1]_vars
    /\ (Running # {}) ~> (Running = {})
    /\ (Cardinality(Running) = max_workers /\ queue # <<>>)
          ~> (queue = <<>> /\ \A r \in Requests : job[r].pc # "none" => Started(r))

\* C18 witness: more jobs than workers were submitted, the first ended by a
\* failed report, all the others by an exception, and none holds a worker.
C18_Witness ==
    /\ nreq = PoolRequests
    /\ job[1].pc = "done" /\ job[1].success = "false"
    /\ \A r \in 2..nreq : job[r].pc = "aborted"
    /\ Running = {}

====
